---- MODULE Spec2Model ----
(***************************************************************************)
(* toolparallel: parallel_map (src/toolparallel/parallel_maps.py) and the   *)
(* parallelize_input decorator (src/toolparallel/parallel_decorators.py).  *)
(*                                                                         *)
(* One call of parallel_map is a run of the state machine below: the entry *)
(* (argument defaults, validation, _wrap_f) is one step, every task of the *)
(* batch starts and finishes in steps of its own under the selected        *)
(* strategy, and the exit (deep transpose, index re-application, return)   *)
(* is one step.  Calls follow each other, so that what a call leaves       *)
(* behind (its worker pool, tasks still running) is part of the state.     *)
(*                                                                         *)
(* Python values are tagged records: I(n) an int, D(m) a dict (m a         *)
(* function from keys), L(s) a list, Exc(kind) a raised exception.         *)
(***************************************************************************)
EXTENDS Integers, Sequences, FiniteSets, TLC

VARIABLES
    pc,             \* "idle" | "process" | "thread" | "serial" | "returned" | "raised"
    call,           \* the arguments of the call in progress, as the caller passed them
    f,              \* the target function
    mode,           \* local `mode` after line 50
    n_workers,      \* local `n_workers`
    wrapped_f,      \* _wrap_f's partial: [fn, f, common, name]
    inputs,         \* _wrap_f's payload list
    index,          \* _wrap_f's index: [present, keys]
    fut,            \* per payload: "pending" | "running" | "done" | "failed" | "cancelled" | "skipped"
    res,            \* per payload: the task's outcome once it has finished
    ncalls,         \* per payload: how many times f was invoked for it
    number_left,    \* process: MapResult._number_left, chunks not yet reported
    exc,            \* process: the first failure MapResult stored
    output,         \* local `output` (a list while collecting, the return value at the end)
    error,          \* the exception the call raised: [kind, at]
    finished,       \* history: the payload positions in the order their tasks finished
    pool,           \* the pool of the call: "none" | "alive" | "closed"
    leaked,         \* a pool created by an earlier call is still alive
    wcall           \* the call of a parallelize_input-decorated function in progress

vars == <<pc, call, f, mode, n_workers, wrapped_f, inputs, index, fut, res,
          ncalls, number_left, exc, output, error, finished, pool, leaked, wcall>>

\* ---------------------------------------------------------------- bounds

MaxLen == 3
MaxWorkers == 2
MaxRecs == 2
MaxDepth == 2

\* ---------------------------------------------------------------- values

None == "None"
I(n) == [k |-> "int", v |-> n]
D(m) == [k |-> "dict", v |-> m]
L(s) == [k |-> "list", v |-> s]
Exc(kind) == [k |-> "exc", v |-> kind]
NoResult == [k |-> "none", v |-> 0]
NoError == [kind |-> "none", at |-> 0]
Raised(kind, i) == [kind |-> kind, at |-> i]

IsDict(x) == x.k = "dict"
IsExc(x) == x.k = "exc"
Range(s) == {s[i] : i \in DOMAIN s}
Min(S) == CHOOSE x \in S : \A y \in S : x <= y
Max(S) == CHOOSE x \in S : \A y \in S : x >= y

\* The exception classes of the errors parallel_map raises itself.
NotImplementedKinds == {"nested", "indexed_collapse"}
ValidationKinds == {"shape", "n_subworkers"}

\* ---------------------------------------------------------------- target call

\* Python's binding of a call f(*pos, **kw) to f's parameters (f has neither
\* defaults nor *args/**kwargs): too many positionals, an unexpected keyword,
\* a parameter given twice or a parameter left unbound is a TypeError.
Bindable(params, pos, kw) ==
    /\ Len(pos) <= Len(params)
    /\ DOMAIN kw \subseteq Range(params)
    /\ \A i \in 1..Len(pos) : params[i] \notin DOMAIN kw
    /\ \A i \in (Len(pos) + 1)..Len(params) : params[i] \in DOMAIN kw

Bound(params, pos, kw) ==
    [i \in 1..Len(params) |-> IF i <= Len(pos) THEN pos[i] ELSE kw[params[i]]]

\* The target's body on its bound parameters: body "x" returns the first,
\* "args" the list of them all, "mul" the product of the first two.
Body(fn, b) ==
    CASE fn.body = "x" -> b[1]
      [] fn.body = "args" -> L(b)
      [] fn.body = "mul" -> I(b[1].v * b[2].v)

\* The call of a plain function: it raises on the values of its first
\* parameter that are in fn.raises.
CallDirect(fn, pos, kw) ==
    IF ~Bindable(fn.params, pos, kw) THEN Exc("TypeError")
    ELSE LET b == Bound(fn.params, pos, kw)
         IN IF b[1] \in fn.raises THEN Exc("TaskError") ELSE Body(fn, b)

\* parallel_decorators._f_execute(*args, f_ref, **kwargs): a function
\* reference is called as it is; a (module, name) pair is looked up in the
\* module, where the name is bound to the decorated function, which, called
\* without its plural argument, calls the function (line 63).
_f_execute(pos, f_ref, kw) == CallDirect(f_ref.fn, pos, kw)

\* The call of the target: a plain function, or
\* functools.partial(_f_execute, f_ref=f_ref).
CallF(fn, pos, kw) ==
    IF fn.body = "_f_execute" THEN _f_execute(pos, fn.f_ref, kw)
    ELSE CallDirect(fn, pos, kw)

\* f(**a, **common): a keyword given on both sides is a TypeError.
Disjoint(a, common) == DOMAIN a \cap DOMAIN common = {}

_f_arg(arg, fn, common) == CallF(fn, <<arg>>, common)

\* Mutant of _f_named_arg: the payload is passed positionally.
_f_named_argPositional(arg, fn, common, name) == CallF(fn, <<arg>>, common)

_f_named_arg(arg, fn, common, name) ==
    IF ~Disjoint(name :> arg, common) THEN Exc("TypeError")
    ELSE CallF(fn, <<>>, (name :> arg) @@ common)

_f_args(args, fn, common) == CallF(fn, args, common)

_f_kwargs(kwargs, fn, common) ==
    IF ~Disjoint(kwargs, common) THEN Exc("TypeError")
    ELSE CallF(fn, <<>>, kwargs @@ common)

\* functools.partial(_f_..., f=f, common=common[, name=arg_name]) applied to
\* one payload.
Partial(w, payload) ==
    CASE w.fn = "_f_arg" -> _f_arg(payload, w.f, w.common)
      [] w.fn = "_f_named_arg" -> _f_named_arg(payload, w.f, w.common, w.name)
      [] w.fn = "_f_args" -> _f_args(payload, w.f, w.common)
      [] w.fn = "_f_kwargs" -> _f_kwargs(payload, w.f, w.common)

\* ---------------------------------------------------------------- _wrap_f

\* An optional argument is <<>> (None) or <<x>>.  A task collection x is
\* [kind |-> "list" | "dict", keys, items]: a dict keeps its keys in
\* insertion order beside its values.
IsNone(opt) == opt = <<>>
CountNone(opts) == Cardinality({i \in DOMAIN opts : IsNone(opts[i])})

\* Mutant of ShapeValid: only the call with no task-shape argument is refused.
ShapeValidSome(arg_list, arg_lists, kwarg_dicts) ==
    CountNone(<<arg_list, arg_lists, kwarg_dicts>>) # 3

\* Line 150: exactly one of the three task-shape arguments is given.
ShapeValid(arg_list, arg_lists, kwarg_dicts) ==
    CountNone(<<arg_list, arg_lists, kwarg_dicts>>) = 2

NoPartial == [fn |-> "none", f |-> None, common |-> <<>>, name |-> None]
NoIndex == [present |-> FALSE, keys |-> <<>>]

_wrap_f(fn, arg_list, arg_lists, arg_name, kwarg_dicts, common_in) ==
    LET common == IF IsNone(common_in) THEN <<>> ELSE common_in[1]
        chosen == IF ~IsNone(arg_list) THEN arg_list[1]
                  ELSE IF ~IsNone(arg_lists) THEN arg_lists[1]
                  ELSE kwarg_dicts[1]
        partial == IF ~IsNone(arg_list) /\ arg_name = None
                       THEN [fn |-> "_f_arg", f |-> fn, common |-> common, name |-> None]
                   ELSE IF ~IsNone(arg_list)
                       THEN [fn |-> "_f_named_arg", f |-> fn, common |-> common, name |-> arg_name]
                   ELSE IF ~IsNone(arg_lists)
                       THEN [fn |-> "_f_args", f |-> fn, common |-> common, name |-> None]
                   ELSE [fn |-> "_f_kwargs", f |-> fn, common |-> common, name |-> None]
    IN IF ~ShapeValid(arg_list, arg_lists, kwarg_dicts)
       THEN [err |-> "shape", wrapped_f |-> NoPartial, inputs |-> <<>>, index |-> NoIndex]
       ELSE [err |-> "none",
             wrapped_f |-> partial,
             inputs |-> chosen.items,
             index |-> IF chosen.kind = "dict"
                       THEN [present |-> TRUE, keys |-> chosen.keys]
                       ELSE NoIndex]

\* ---------------------------------------------------------------- transpose

\* Mutant of SameKeys: an item may lack keys of the first item.
SameKeysSubset(a, b) == a \subseteq b

\* Line 200: the item's key set against the first item's.
SameKeys(a, b) == a = b

\* Mutant of AllDicts: one dict among the values is enough.
AllDictsAny(items) == \E i \in DOMAIN items : IsDict(items[i])

\* Line 211: every value collected for the key is a dict.
AllDicts(items) == \A i \in DOMAIN items : IsDict(items[i])

\* Mutant of Column: each value is put in front of the list.
ColumnReversed(list_of_dicts, key) ==
    LET n == Len(list_of_dicts)
    IN [j \in 1..n |-> list_of_dicts[n + 1 - j].v[key]]

\* Lines 197-203: dict_of_lists[key] after the main conversion, the values
\* the items hold under key, in item order.
Column(list_of_dicts, key) ==
    LET has == {i \in 1..Len(list_of_dicts) : key \in DOMAIN list_of_dicts[i].v}
        nth(j) == CHOOSE i \in has : Cardinality({h \in has : h <= i}) = j
    IN [j \in 1..Cardinality(has) |-> list_of_dicts[nth(j)].v[key]]

RECURSIVE _list_of_dicts_to_dict_of_lists(_, _)
_list_of_dicts_to_dict_of_lists(list_of_dicts, deep) ==
    IF ~IsDict(list_of_dicts[1]) THEN Exc("not_dict")
    ELSE
    LET n == Len(list_of_dicts)
        keys == DOMAIN list_of_dicts[1].v
        \* the main conversion stops at the first item that is no dict or
        \* has other keys
        bad == {i \in 1..n : \/ ~IsDict(list_of_dicts[i])
                             \/ ~SameKeys(DOMAIN list_of_dicts[i].v, keys)}
        dict_of_lists == [key \in keys |-> Column(list_of_dicts, key)]
        deep_keys == IF deep THEN {key \in keys : AllDicts(dict_of_lists[key])} ELSE {}
        sub == [key \in deep_keys |->
                   _list_of_dicts_to_dict_of_lists(dict_of_lists[key], deep)]
        failed == {key \in deep_keys : IsExc(sub[key])}
    IN IF bad # {}
       THEN (IF ~IsDict(list_of_dicts[Min(bad)]) THEN Exc("not_dict")
             ELSE Exc("different_keys"))
       ELSE IF failed # {} THEN sub[CHOOSE key \in failed : TRUE]
       ELSE D([key \in keys |-> IF key \in deep_keys THEN sub[key]
                                ELSE L(dict_of_lists[key])])

\* Mutant of DictZip: the results are paired with the keys in sorted order.
DictZipSorted(keys, values) ==
    LET InKeys(x) == x \in Range(keys)
        sorted == SelectSeq(<<"a", "b", "c">>, InKeys)
    IN D([key \in Range(keys) |->
             values[CHOOSE i \in 1..Len(sorted) : sorted[i] = key]])

\* dict(zip(index, output)): a later pair overwrites an earlier one with the
\* same key.
DictZip(keys, values) ==
    LET n == IF Len(keys) < Len(values) THEN Len(keys) ELSE Len(values)
    IN D([key \in {keys[i] : i \in 1..n} |->
             values[Max({i \in 1..n : keys[i] = key})]])

\* ---------------------------------------------------------------- Pool.map

\* multiprocessing.pool.Pool.map cuts the payload list into chunks of
\* ceil(len / (4 * n_workers)) payloads; a worker runs the payloads of a chunk
\* one after the other.
ChunkSize(n, workers) ==
    IF n = 0 THEN 0
    ELSE (n \div (workers * 4)) + (IF n % (workers * 4) # 0 THEN 1 ELSE 0)

ChunkOf(i, n, workers) == ((i - 1) \div ChunkSize(n, workers)) + 1

NChunks(n, workers) == IF n = 0 THEN 0 ELSE ChunkOf(n, n, workers)

LastOfChunk(i, n, workers) ==
    i = n \/ ChunkOf(i + 1, n, workers) # ChunkOf(i, n, workers)

FirstOfChunk(i, n, workers) ==
    i = 1 \/ ChunkOf(i - 1, n, workers) # ChunkOf(i, n, workers)

Running == {i \in DOMAIN fut : fut[i] = "running"}
Pending == {i \in DOMAIN fut : fut[i] = "pending"}

\* ---------------------------------------------------------------- parallel_map

Implemented == {"process", "thread", "serial"}

\* Line 49-50: the default strategy.
DefaultMode(mode_in) == IF mode_in = None THEN "process" ELSE mode_in

\* Mutant of EntryError: the nested branch raises nothing.
EntryErrorNestedFalls(m, w, to_dict_of_lists, n_subworkers_per_worker) ==
    IF ~IsNone(n_subworkers_per_worker) /\ m # "nested" THEN "n_subworkers"
    ELSE IF w.err # "none" THEN w.err
    ELSE IF to_dict_of_lists /\ w.index.present THEN "indexed_collapse"
    ELSE IF m \notin Implemented \cup {"nested"} THEN "unknown_mode"
    ELSE "none"

\* Mutant of EntryError: the branch has no final else.
EntryErrorNoElse(m, w, to_dict_of_lists, n_subworkers_per_worker) ==
    IF ~IsNone(n_subworkers_per_worker) /\ m # "nested" THEN "n_subworkers"
    ELSE IF w.err # "none" THEN w.err
    ELSE IF to_dict_of_lists /\ w.index.present THEN "indexed_collapse"
    ELSE IF m = "nested" THEN "nested"
    ELSE "none"

\* Mutant of EntryError: line 65 is missing, the indexed input is collapsed.
EntryErrorNoIndexCheck(m, w, to_dict_of_lists, n_subworkers_per_worker) ==
    IF ~IsNone(n_subworkers_per_worker) /\ m # "nested" THEN "n_subworkers"
    ELSE IF w.err # "none" THEN w.err
    ELSE IF m = "nested" THEN "nested"
    ELSE IF m \notin Implemented THEN "unknown_mode"
    ELSE "none"

\* Mutant of EntryError: line 53 is missing, the worker-subcount is ignored.
EntryErrorNoSubcheck(m, w, to_dict_of_lists, n_subworkers_per_worker) ==
    IF w.err # "none" THEN w.err
    ELSE IF to_dict_of_lists /\ w.index.present THEN "indexed_collapse"
    ELSE IF m = "nested" THEN "nested"
    ELSE IF m \notin Implemented THEN "unknown_mode"
    ELSE "none"

\* The checks of lines 53-66 and 69-82 in the order the code makes them: the
\* kind of the exception the call raises before any task, or "none".
EntryError(m, w, to_dict_of_lists, n_subworkers_per_worker) ==
    IF ~IsNone(n_subworkers_per_worker) /\ m # "nested" THEN "n_subworkers"
    ELSE IF w.err # "none" THEN w.err
    ELSE IF to_dict_of_lists /\ w.index.present THEN "indexed_collapse"
    ELSE IF m = "nested" THEN "nested"
    ELSE IF m \notin Implemented THEN "unknown_mode"
    ELSE "none"

\* Lines 49-66 and the first half of the branch of lines 69-82: defaults,
\* validation, _wrap_f, and the creation of the pool with every payload
\* submitted to it.  An n_workers of None is multiprocessing.cpu_count(),
\* some positive number: the caller's choice of n_workers_in covers it.
parallel_map(f_in, n_workers_in, mode_in, arg_list, arg_name, arg_lists, kwarg_dicts, common, to_dict_of_lists, n_subworkers_per_worker) ==
    LET m == DefaultMode(mode_in)
        w == _wrap_f(f_in, arg_list, arg_lists, arg_name, kwarg_dicts, common)
        n == Len(w.inputs)
        err == EntryError(m, w, to_dict_of_lists, n_subworkers_per_worker)
        wrapped == ~(~IsNone(n_subworkers_per_worker) /\ m # "nested") /\ w.err = "none"
    IN /\ pc = "idle"
       /\ call' = [arg_list |-> arg_list, arg_lists |-> arg_lists,
                   kwarg_dicts |-> kwarg_dicts, arg_name |-> arg_name,
                   common |-> common,
                   to_dict_of_lists |-> to_dict_of_lists,
                   n_subworkers_per_worker |-> n_subworkers_per_worker]
       /\ f' = f_in
       /\ mode' = m
       /\ n_workers' = n_workers_in
       /\ wrapped_f' = IF wrapped THEN w.wrapped_f ELSE NoPartial
       /\ inputs' = IF wrapped THEN w.inputs ELSE <<>>
       /\ index' = IF wrapped THEN w.index ELSE NoIndex
       /\ fut' = IF err = "none" THEN [i \in 1..n |-> "pending"] ELSE <<>>
       /\ res' = IF err = "none" THEN [i \in 1..n |-> NoResult] ELSE <<>>
       /\ ncalls' = IF err = "none" THEN [i \in 1..n |-> 0] ELSE <<>>
       /\ number_left' = IF err = "none" /\ m = "process"
                         THEN NChunks(n, n_workers_in) ELSE 0
       /\ exc' = NoError
       /\ output' = L(<<>>)
       /\ error' = Raised(err, 0)
       /\ finished' = <<>>
       /\ pc' = IF err = "none" THEN m ELSE "raised"
       /\ pool' = IF err = "none" /\ m \in {"process", "thread"} THEN "alive" ELSE "none"
       /\ UNCHANGED leaked

\* Line 77, first half of one iteration: wrapped_f(arg) is entered.
SerialStart ==
    LET i == Len(output.v) + 1
    IN /\ pc = "serial"
       /\ i <= Len(inputs)
       /\ fut[i] = "pending"
       /\ fut' = [fut EXCEPT ![i] = "running"]
       /\ ncalls' = [ncalls EXCEPT ![i] = @ + 1]
       /\ UNCHANGED <<pc, call, f, mode, n_workers, wrapped_f, inputs, index, res,
                      number_left, exc, output, error, finished, pool, leaked, wcall>>

\* Mutant of SerialFinish: a raising task leaves its exception in the list.
SerialFinishSwallow ==
    LET i == Len(output.v) + 1
        r == Partial(wrapped_f, inputs[i])
    IN /\ pc = "serial"
       /\ i <= Len(inputs)
       /\ fut[i] = "running"
       /\ finished' = Append(finished, i)
       /\ res' = [res EXCEPT ![i] = r]
       /\ fut' = [fut EXCEPT ![i] = IF IsExc(r) THEN "failed" ELSE "done"]
       /\ output' = L(Append(output.v, r))
       /\ UNCHANGED <<pc, error, call, f, mode, n_workers, wrapped_f, inputs, index,
                      ncalls, number_left, exc, pool, leaked, wcall>>

\* Line 77, second half: wrapped_f(arg) returns into the list or raises out
\* of the comprehension.
SerialFinish ==
    LET i == Len(output.v) + 1
        r == Partial(wrapped_f, inputs[i])
    IN /\ pc = "serial"
       /\ i <= Len(inputs)
       /\ fut[i] = "running"
       /\ finished' = Append(finished, i)
       /\ res' = [res EXCEPT ![i] = r]
       /\ fut' = [fut EXCEPT ![i] = IF IsExc(r) THEN "failed" ELSE "done"]
       /\ output' = IF IsExc(r) THEN output ELSE L(Append(output.v, r))
       /\ pc' = IF IsExc(r) THEN "raised" ELSE pc
       /\ error' = IF IsExc(r) THEN Raised(r.v, i) ELSE error
       /\ UNCHANGED <<call, f, mode, n_workers, wrapped_f, inputs, index, ncalls,
                      number_left, exc, pool, leaked, wcall>>

\* Mutant of ThreadStart: the work item taken stays in the queue.
ThreadStartRequeue ==
    /\ pc = "thread"
    /\ Pending \cup Running # {}
    /\ Cardinality(Running) < n_workers
    /\ LET i == Min(Pending \cup Running)
       IN /\ fut' = [fut EXCEPT ![i] = "running"]
          /\ ncalls' = [ncalls EXCEPT ![i] = @ + 1]
    /\ UNCHANGED <<pc, call, f, mode, n_workers, wrapped_f, inputs, index, res,
                   number_left, exc, output, error, finished, pool, leaked, wcall>>

\* Lines 73-74: a worker thread of the executor takes the next work item of
\* the FIFO queue (a cancelled one is dropped) and enters wrapped_f.
ThreadStart ==
    /\ pc = "thread"
    /\ Pending # {}
    /\ Cardinality(Running) < n_workers
    /\ LET i == Min(Pending)
       IN /\ fut' = [fut EXCEPT ![i] = "running"]
          /\ ncalls' = [ncalls EXCEPT ![i] = @ + 1]
    /\ UNCHANGED <<pc, call, f, mode, n_workers, wrapped_f, inputs, index, res,
                   number_left, exc, output, error, finished, pool, leaked, wcall>>

\* A worker thread finishes its work item and sets the future's result or
\* exception.  Nothing stops it when the call has raised in the meantime.
ThreadFinish(i) ==
    LET r == Partial(wrapped_f, inputs[i])
    IN /\ mode = "thread"
       /\ pc \in {"thread", "raised"}
       /\ fut[i] = "running"
       /\ finished' = Append(finished, i)
       /\ res' = [res EXCEPT ![i] = r]
       /\ fut' = [fut EXCEPT ![i] = IF IsExc(r) THEN "failed" ELSE "done"]
       /\ UNCHANGED <<pc, call, f, mode, n_workers, wrapped_f, inputs, index, ncalls,
                      number_left, exc, output, error, pool, leaked, wcall>>

\* The futures that Executor.map's result iterator cancels when the result
\* it waits for raises: every future not yet running.
CancelPending(futs) ==
    [j \in DOMAIN futs |-> IF futs[j] = "pending" THEN "cancelled" ELSE futs[j]]

\* Mutant of ThreadCollect: the results are taken as the futures complete,
\* so that the failure raised is the one that happened first.
ThreadCollectAsCompleted ==
    LET i == Len(output.v) + 1
        failed == {j \in DOMAIN fut : fut[j] = "failed"}
        first == CHOOSE j \in failed :
                    \A h \in failed : \E a, b \in DOMAIN finished :
                        finished[a] = j /\ finished[b] = h /\ a <= b
    IN /\ pc = "thread"
       /\ i <= Len(inputs)
       /\ IF failed # {}
          THEN /\ pc' = "raised"
               /\ error' = Raised(res[first].v, first)
               /\ fut' = CancelPending(fut)
               /\ UNCHANGED output
          ELSE /\ fut[i] = "done"
               /\ output' = L(Append(output.v, res[i]))
               /\ UNCHANGED <<pc, error, fut>>
       /\ UNCHANGED <<call, f, mode, n_workers, wrapped_f, inputs, index, res, ncalls,
                      number_left, exc, finished, pool, leaked, wcall>>

\* Line 75: list(result) takes the result of the next future in submission
\* order, blocking until that future is finished.
ThreadCollect ==
    LET i == Len(output.v) + 1
    IN /\ pc = "thread"
       /\ i <= Len(inputs)
       /\ fut[i] \in {"done", "failed"}
       /\ IF fut[i] = "done"
          THEN /\ output' = L(Append(output.v, res[i]))
               /\ UNCHANGED <<pc, error, fut>>
          ELSE /\ pc' = "raised"
               /\ error' = Raised(res[i].v, i)
               /\ fut' = CancelPending(fut)
               /\ UNCHANGED output
       /\ UNCHANGED <<call, f, mode, n_workers, wrapped_f, inputs, index, res, ncalls,
                      number_left, exc, finished, pool, leaked, wcall>>

\* Mutant of ProcessStart: a chunk is taken whether a worker is free or not.
ProcessStartUnbounded ==
    LET n == Len(inputs)
        unstarted == {i \in Pending : FirstOfChunk(i, n, n_workers)}
    IN /\ pc = "process"
       /\ unstarted # {}
       /\ LET i == Min(unstarted)
          IN /\ fut' = [fut EXCEPT ![i] = "running"]
             /\ ncalls' = [ncalls EXCEPT ![i] = @ + 1]
       /\ UNCHANGED <<pc, call, f, mode, n_workers, wrapped_f, inputs, index, res,
                      number_left, exc, output, error, finished, pool, leaked, wcall>>

\* Lines 70-71: a worker process takes the next chunk of the task queue and
\* enters wrapped_f on its first payload.
ProcessStart ==
    LET n == Len(inputs)
        unstarted == {i \in Pending : FirstOfChunk(i, n, n_workers)}
    IN /\ pc = "process"
       /\ unstarted # {}
       /\ Cardinality(Running) < n_workers
       /\ LET i == Min(unstarted)
          IN /\ fut' = [fut EXCEPT ![i] = "running"]
             /\ ncalls' = [ncalls EXCEPT ![i] = @ + 1]
       /\ UNCHANGED <<pc, call, f, mode, n_workers, wrapped_f, inputs, index, res,
                      number_left, exc, output, error, finished, pool, leaked, wcall>>

\* The statuses after payload i of a chunk has finished: a success moves the
\* worker on to the chunk's next payload, a failure ends the chunk.
AfterInChunk(futs, i, ok, n, workers) ==
    [j \in DOMAIN futs |->
        IF j = i THEN (IF ok THEN "done" ELSE "failed")
        ELSE IF j > i /\ ChunkOf(j, n, workers) = ChunkOf(i, n, workers)
             THEN (IF ~ok THEN "skipped"
                   ELSE IF j = i + 1 THEN "running" ELSE futs[j])
        ELSE futs[j]]

\* A worker process finishes a payload; at the end of its chunk it reports
\* the chunk (MapResult._set), which keeps the first failure only.
ProcessFinish(i) ==
    LET n == Len(inputs)
        r == Partial(wrapped_f, inputs[i])
        ends == IsExc(r) \/ LastOfChunk(i, n, n_workers)
    IN /\ pc = "process"
       /\ fut[i] = "running"
       /\ finished' = Append(finished, i)
       /\ res' = [res EXCEPT ![i] = r]
       /\ fut' = AfterInChunk(fut, i, ~IsExc(r), n, n_workers)
       /\ ncalls' = IF ends THEN ncalls ELSE [ncalls EXCEPT ![i + 1] = @ + 1]
       /\ number_left' = IF ends THEN number_left - 1 ELSE number_left
       /\ exc' = IF IsExc(r) /\ exc = NoError THEN Raised(r.v, i) ELSE exc
       /\ UNCHANGED <<pc, call, f, mode, n_workers, wrapped_f, inputs, index,
                      output, error, pool, leaked, wcall>>

\* Mutant of PoolMapValue: the results in the order the tasks finished.
PoolMapValueByCompletion == [j \in 1..Len(finished) |-> res[finished[j]]]

\* MapResult._value: the results by payload position.
PoolMapValue == [i \in DOMAIN res |-> res[i]]

\* The batch is over: the comprehension or list(result) has consumed every
\* payload, or pool.map's MapResult has every chunk reported.
Collected ==
    \/ pc \in {"serial", "thread"} /\ Len(output.v) = Len(inputs)
    \/ pc = "process" /\ number_left = 0

\* Mutant of Return: line 85 does not test len(output), and the transpose
\* fails on list_of_dicts[0] (IndexError) when the list is empty.
ReturnNoLenTest ==
    LET collected == IF pc = "process" THEN PoolMapValue ELSE output.v
        collapsed == IF ~call.to_dict_of_lists THEN L(collected)
                     ELSE IF Len(collected) = 0 THEN Exc("IndexError")
                     ELSE _list_of_dicts_to_dict_of_lists(collected, TRUE)
    IN /\ Collected
       /\ IF pc = "process" /\ exc # NoError
          THEN /\ pc' = "raised"
               /\ error' = exc
               /\ UNCHANGED output
          ELSE IF IsExc(collapsed)
          THEN /\ pc' = "raised"
               /\ error' = Raised(collapsed.v, 0)
               /\ UNCHANGED output
          ELSE /\ pc' = "returned"
               /\ output' = IF index.present THEN DictZip(index.keys, collapsed.v)
                            ELSE collapsed
               /\ UNCHANGED error
       /\ UNCHANGED <<call, f, mode, n_workers, wrapped_f, inputs, index, fut, res,
                      ncalls, number_left, exc, finished, pool, leaked, wcall>>

\* The end of line 71 (pool.map returns the value list or raises the stored
\* failure), and lines 84-92: deep transpose, index, return.
Return ==
    LET collected == IF pc = "process" THEN PoolMapValue ELSE output.v
        collapsed == IF call.to_dict_of_lists /\ Len(collected) > 0
                     THEN _list_of_dicts_to_dict_of_lists(collected, TRUE)
                     ELSE L(collected)
    IN /\ Collected
       /\ IF pc = "process" /\ exc # NoError
          THEN /\ pc' = "raised"
               /\ error' = exc
               /\ UNCHANGED output
          ELSE IF IsExc(collapsed)
          THEN /\ pc' = "raised"
               /\ error' = Raised(collapsed.v, 0)
               /\ UNCHANGED output
          ELSE /\ pc' = "returned"
               /\ output' = IF index.present THEN DictZip(index.keys, collapsed.v)
                            ELSE collapsed
               /\ UNCHANGED error
       /\ UNCHANGED <<call, f, mode, n_workers, wrapped_f, inputs, index, fut, res,
                      ncalls, number_left, exc, finished, pool, leaked, wcall>>

\* parallel_map never closes, terminates or shuts down the pool it creates:
\* its workers live until the garbage collector finalizes the pool object,
\* which the call's return makes possible and nothing makes certain.
Finalize ==
    \/ /\ pc \in {"returned", "raised"}
       /\ pool = "alive"
       /\ Running = {}
       /\ pool' = "closed"
       /\ UNCHANGED <<pc, call, f, mode, n_workers, wrapped_f, inputs, index, fut, res,
                      ncalls, number_left, exc, output, error, finished, leaked, wcall>>
    \/ /\ leaked
       /\ leaked' = FALSE
       /\ UNCHANGED <<pc, call, f, mode, n_workers, wrapped_f, inputs, index, fut, res,
                      ncalls, number_left, exc, output, error, finished, pool, wcall>>

\* ---------------------------------------------------------------- callers

NoCall == [arg_list |-> <<>>, arg_lists |-> <<>>, kwarg_dicts |-> <<>>,
           arg_name |-> None, common |-> <<>>, to_dict_of_lists |-> FALSE,
           n_subworkers_per_worker |-> <<>>]
NoTarget == [params |-> <<"x">>, body |-> "x", raises |-> {}]
NoWrappedCall == [active |-> FALSE, parallel |-> FALSE, fn |-> NoTarget,
                  args |-> <<>>, kwargs |-> <<>>, direct |-> 0]

\* The caller has the call's result or exception and goes on: the frame of
\* the call is gone, and with it the last reference to its pool.  The model
\* follows the tasks of the latest call only.
Resume ==
    /\ pc \in {"returned", "raised"}
    /\ pc' = "idle"
    /\ leaked' = (leaked \/ pool = "alive")
    /\ pool' = "none"
    /\ call' = NoCall
    /\ f' = NoTarget
    /\ mode' = "process"
    /\ n_workers' = 1
    /\ wrapped_f' = NoPartial
    /\ inputs' = <<>>
    /\ index' = NoIndex
    /\ fut' = <<>>
    /\ res' = <<>>
    /\ ncalls' = <<>>
    /\ number_left' = 0
    /\ exc' = NoError
    /\ output' = L(<<>>)
    /\ error' = NoError
    /\ finished' = <<>>
    /\ wcall' = NoWrappedCall

Keys == {"a", "b"}
Vals == {I(1), D([a |-> I(2)])}
ShapeArgs == {"arg_list", "arg_lists", "kwarg_dicts"}
Modes == {None, "process", "thread", "serial", "nested", "batch"}

\* The target functions: f(x) returning x, total or raising on the value 1.
Targets == {[params |-> <<"x">>, body |-> "x", raises |-> S] : S \in {{}, {I(1)}}}

SeqsUpTo(S, n) == UNION {[1..m -> S] : m \in 0..n}
Injective(s) == \A i, j \in DOMAIN s : s[i] = s[j] => i = j

\* The task collections a caller passes: a list of values, or a dict of them
\* under distinct keys.
Collections ==
    {[kind |-> "list", keys |-> <<>>, items |-> s] : s \in SeqsUpTo(Vals, MaxLen)}
    \cup {[kind |-> "dict", keys |-> ks, items |-> s] :
              <<ks, s>> \in {p \in SeqsUpTo(Keys, MaxLen) \X SeqsUpTo(Vals, MaxLen) :
                                Injective(p[1]) /\ Len(p[1]) = Len(p[2])}}

\* The collection c as each of the three task-shape arguments carries it.
AsShape(arg, c) ==
    [c EXCEPT !.items = [i \in DOMAIN c.items |->
        CASE arg = "arg_list" -> c.items[i]
          [] arg = "arg_lists" -> <<c.items[i]>>
          [] arg = "kwarg_dicts" -> ("x" :> c.items[i])]]

Opt(given, arg, c) == IF arg \in given THEN <<AsShape(arg, c)>> ELSE <<>>

Call ==
    /\ pc = "idle"
    /\ UNCHANGED wcall
    /\ \E f_in \in Targets, w \in 1..MaxWorkers, m \in Modes,
          given \in SUBSET ShapeArgs, c \in Collections, arg_name \in {None, "x"},
          common \in {<<>>, <<(<<>>)>>}, to_dict_of_lists \in BOOLEAN,
          n_sub \in {<<>>, <<2>>} :
           parallel_map(f_in, w, m, Opt(given, "arg_list", c), arg_name,
                        Opt(given, "arg_lists", c), Opt(given, "kwarg_dicts", c),
                        common, to_dict_of_lists, n_sub)

Init ==
    /\ pc = "idle"
    /\ call = NoCall
    /\ f = NoTarget
    /\ mode = "process"
    /\ n_workers = 1
    /\ wrapped_f = NoPartial
    /\ inputs = <<>>
    /\ index = NoIndex
    /\ fut = <<>>
    /\ res = <<>>
    /\ ncalls = <<>>
    /\ number_left = 0
    /\ exc = NoError
    /\ output = L(<<>>)
    /\ error = NoError
    /\ finished = <<>>
    /\ pool = "none"
    /\ leaked = FALSE
    /\ wcall = NoWrappedCall

Next ==
    \/ Call
    \/ SerialStart
    \/ SerialFinish
    \/ ThreadStart
    \/ \E i \in DOMAIN fut : ThreadFinish(i)
    \/ ThreadCollect
    \/ ProcessStart
    \/ \E i \in DOMAIN fut : ProcessFinish(i)
    \/ Return
    \/ Resume
    \/ Finalize

Spec == Init /\ [][Next]_vars

\* ---------------------------------------------------------------- result records

\* Calls whose tasks return records: the target returns its argument, the
\* payloads are the records, the strategy is serial.  A record is the scalar
\* 1 or a dict over Keys whose values are the scalar or dicts over "a",
\* nested to MaxDepth.
DictsOver(K, V) == {D(m) : m \in UNION {[S -> V] : S \in SUBSET K}}

RECURSIVE Level(_)
Level(d) == IF d = 0 THEN {I(1)} ELSE {I(1)} \cup DictsOver({"a"}, Level(d - 1))

Records == {I(1)} \cup DictsOver(Keys, Level(MaxDepth - 1))

CallT ==
    /\ pc = "idle"
    /\ UNCHANGED wcall
    /\ \E recs \in SeqsUpTo(Records, MaxRecs), to_dict_of_lists \in BOOLEAN :
           parallel_map(NoTarget, 1, "serial",
                        <<[kind |-> "list", keys |-> <<>>, items |-> recs]>>,
                        None, <<>>, <<>>, <<>>, to_dict_of_lists, <<>>)

NextT ==
    \/ CallT
    \/ SerialStart
    \/ SerialFinish
    \/ Return
    \/ Resume

SpecT == Init /\ [][NextT]_vars

\* ---------------------------------------------------------------- call shapes

\* Calls that exercise the four call shapes and the common arguments: the
\* targets are f(x, y), returning its arguments, and f(x, scale), returning
\* x * scale; the payloads are ints, tuples of one or two ints, and kwargs
\* dicts over x and y; the strategy is serial.
BVals == {I(1), I(2), I(3), I(4)}
BTargets == {[params |-> <<"x", "y">>, body |-> "args", raises |-> {}],
             [params |-> <<"x", "scale">>, body |-> "mul", raises |-> {}]}
BCommons == {<<>>, <<(<<>>)>>, <<[scale |-> I(10)]>>, <<[y |-> I(2)]>>, <<[x |-> I(3)]>>}
BNames == {None, "x", "scale"}
BTuples == {t \in SeqsUpTo(BVals, 2) : Len(t) >= 1}
BKwargs == UNION {[S -> BVals] : S \in SUBSET {"x", "y"}}
AsList(items) == [kind |-> "list", keys |-> <<>>, items |-> items]

CallB ==
    /\ pc = "idle"
    /\ UNCHANGED wcall
    /\ \E f_in \in BTargets, common \in BCommons :
          \/ \E s \in SeqsUpTo(BVals, MaxLen), arg_name \in BNames :
                parallel_map(f_in, 1, "serial", <<AsList(s)>>, arg_name, <<>>, <<>>,
                             common, FALSE, <<>>)
          \/ \E s \in SeqsUpTo(BTuples, MaxRecs) :
                parallel_map(f_in, 1, "serial", <<>>, None, <<AsList(s)>>, <<>>,
                             common, FALSE, <<>>)
          \/ \E s \in SeqsUpTo(BKwargs, MaxRecs) :
                parallel_map(f_in, 1, "serial", <<>>, None, <<>>, <<AsList(s)>>,
                             common, FALSE, <<>>)

NextB ==
    \/ CallB
    \/ SerialStart
    \/ SerialFinish
    \/ Return
    \/ Resume

SpecB == Init /\ [][NextB]_vars

\* ---------------------------------------------------------------- parallelize_input

\* parallel_decorators.py.  A dict is a function from its keys; an optional
\* dict (config, parallel_kwargs) or an optional value (the plural argument)
\* is <<>> for None or <<x>>.
OrEmpty(opt) == IF IsNone(opt) THEN <<>> ELSE opt[1]

\* Lines 26-33: the checks of the decorator on the function's parameters.
Decoratable(fn, singular_arg, plural_arg) ==
    /\ singular_arg \in Range(fn.params)
    /\ plural_arg \notin Range(fn.params)
    /\ "parallel_kwargs" \notin Range(fn.params)

\* Line 42: plural_arg in kwargs and kwargs[plural_arg] is not None.
ParallelMode(kwargs, plural_arg) ==
    plural_arg \in DOMAIN kwargs /\ ~IsNone(kwargs[plural_arg])

\* Line 45: dict(zip(argspec.args, args)).
ZipArgs(params, args) ==
    LET n == Min({Len(params), Len(args)})
    IN [k \in {params[i] : i \in 1..n} |-> args[Max({i \in 1..n : params[i] = k})]]

\* Lines 44-45: the keywords other than the plural and the singular one,
\* updated with the positional arguments under their parameters' names.
CommonOf(fn, args, kwargs, singular_arg, plural_arg) ==
    ZipArgs(fn.params, args)
        @@ [k \in DOMAIN kwargs \ {plural_arg, singular_arg} |-> kwargs[k]]

\* Lines 61-62: kwargs.pop(plural_arg).
PopPlural(kwargs, plural_arg) == [k \in DOMAIN kwargs \ {plural_arg} |-> kwargs[k]]

\* Lines 47-53: functools.partial(_f_execute, f_ref=f_ref).
PartialExecute(fn, pass_f_by_ref) ==
    [params |-> <<>>, body |-> "_f_execute", raises |-> {},
     f_ref |-> [by_ref |-> pass_f_by_ref, fn |-> fn]]

\* Lines 36-63: the decorated function, wrapped_f(*args, parallel_kwargs,
\* **kwargs), of a function fn decorated with parallelize_input(singular_arg,
\* plural_arg, pass_f_by_ref, config).  cpu_count is the machine's
\* multiprocessing.cpu_count(), which parallel_map takes for an n_workers of
\* None.
parallelize_input_wrapped_f(fn, singular_arg, plural_arg, pass_f_by_ref, config, args, kwargs, parallel_kwargs, cpu_count) ==
    LET pk == OrEmpty(parallel_kwargs) @@ OrEmpty(config)
        r == CallDirect(fn, args, PopPlural(kwargs, plural_arg))
    IN /\ pc = "idle"
       /\ Decoratable(fn, singular_arg, plural_arg)
       /\ \/ /\ ParallelMode(kwargs, plural_arg)
             /\ parallel_map(PartialExecute(fn, pass_f_by_ref),
                             IF "n_workers" \in DOMAIN pk THEN pk.n_workers ELSE cpu_count,
                             IF "mode" \in DOMAIN pk THEN pk.mode ELSE None,
                             <<kwargs[plural_arg][1]>>, singular_arg, <<>>, <<>>,
                             <<CommonOf(fn, args, kwargs, singular_arg, plural_arg)>>,
                             FALSE, <<>>)
             /\ wcall' = [active |-> TRUE, parallel |-> TRUE, fn |-> fn,
                          args |-> args, kwargs |-> kwargs, direct |-> 0]
          \/ /\ ~ParallelMode(kwargs, plural_arg)
             /\ pc' = IF IsExc(r) THEN "raised" ELSE "returned"
             /\ output' = IF IsExc(r) THEN output ELSE r
             /\ error' = IF IsExc(r) THEN Raised(r.v, 0) ELSE error
             /\ wcall' = [active |-> TRUE, parallel |-> FALSE, fn |-> fn,
                          args |-> args, kwargs |-> kwargs, direct |-> 1]
             /\ UNCHANGED <<call, f, mode, n_workers, wrapped_f, inputs, index, fut,
                            res, ncalls, number_left, exc, finished, pool, leaked>>

\* The callers of a decorated function: f(x, y) and f(y, x), both returning
\* their arguments, decorated with singular x and plural xs; up to two
\* positional arguments; keywords among x and y; xs absent, None, or a list or
\* dict of values.
DSingular == "x"
DPlural == "xs"
DTargets == {[params |-> ps, body |-> "args", raises |-> {}] :
                 ps \in {<<"x", "y">>, <<"y", "x">>}}
DArgs == SeqsUpTo({I(3)}, 2)
DKwargs ==
    {base @@ xs : base \in UNION {[S -> {I(4)}] : S \in SUBSET {"x", "y"}},
                  xs \in {<<>>} \cup {(DPlural :> v) : v \in {<<>>} \cup {<<c>> : c \in Collections}}}
DConfigs == {<<>>, <<[mode |-> "serial"]>>}
DParallelKwargs == {<<>>, <<[mode |-> "thread"]>>, <<[mode |-> "process", n_workers |-> MaxWorkers]>>}

CallD ==
    /\ pc = "idle"
    /\ \E fn \in DTargets, pass_f_by_ref \in BOOLEAN, config \in DConfigs,
          args \in DArgs, kwargs \in DKwargs, parallel_kwargs \in DParallelKwargs,
          cpu_count \in 1..MaxWorkers :
           parallelize_input_wrapped_f(fn, DSingular, DPlural, pass_f_by_ref, config,
                                       args, kwargs, parallel_kwargs, cpu_count)

NextD ==
    \/ CallD
    \/ SerialStart
    \/ SerialFinish
    \/ ThreadStart
    \/ \E i \in DOMAIN fut : ThreadFinish(i)
    \/ ThreadCollect
    \/ ProcessStart
    \/ \E i \in DOMAIN fut : ProcessFinish(i)
    \/ Return
    \/ Resume

SpecD == Init /\ [][NextD]_vars


\* ---------------------------------------------------------------- properties

Over == pc \in {"returned", "raised"}
NoTaskRan == \A i \in DOMAIN ncalls : ncalls[i] = 0
GivenArgs == {a \in ShapeArgs : call[a] # <<>>}
Passed == call[CHOOSE a \in GivenArgs : TRUE][1]
TaskOutcome(i) == Partial(wrapped_f, inputs[i])
Results == [i \in 1..Len(inputs) |-> TaskOutcome(i)]
ColOf(recs, key) == [i \in 1..Len(recs) |-> recs[i].v[key]]
Uniform(recs) ==
    /\ \A i \in 1..Len(recs) : recs[i].k = "dict"
    /\ \A i \in 1..Len(recs) : DOMAIN recs[i].v = DOMAIN recs[1].v

\* C1: a call on a sequence that returns (process, thread or serial, any
\* worker count) returns a list as long as the input whose i-th element is
\* the outcome of the task on the i-th input; with the target that returns
\* its argument, the list is the input list.
C1_OrderPreserved ==
    (pc = "returned" /\ ~index.present /\ ~call.to_dict_of_lists) =>
        /\ output.k = "list"
        /\ Len(output.v) = Len(Passed.items)
        /\ \A i \in 1..Len(inputs) : output.v[i] = TaskOutcome(i)
        /\ (wrapped_f.fn = "_f_arg" /\ f.body = "x") => output.v = call.arg_list[1].items

\* Witness of C1: a pool call returned although its second task finished
\* before its first, the two results being different.
C1_Witness ==
    /\ pc = "returned"
    /\ mode \in {"process", "thread"}
    /\ ~index.present
    /\ Len(inputs) = 3
    /\ finished[1] = 2
    /\ output.v[1] # output.v[2]

\* C2: a call on a mapping that returns returns a dict with exactly the
\* mapping's keys, each key holding the outcome of the task on the value the
\* mapping holds under that key; a call on a sequence returns a list of the
\* sequence's length.
C2_IndexRoundTrip ==
    pc = "returned" =>
        /\ index.present = (Passed.kind = "dict")
        /\ index.present =>
              /\ output.k = "dict"
              /\ DOMAIN output.v = Range(Passed.keys)
              /\ \A i \in 1..Len(Passed.keys) :
                    output.v[Passed.keys[i]] = Partial(wrapped_f, Passed.items[i])
        /\ (~index.present /\ ~call.to_dict_of_lists) =>
              /\ output.k = "list"
              /\ Len(output.v) = Len(Passed.items)

\* Witness of C2: a pool call on a two-key mapping whose keys are not in
\* sorted order returned, the two results being different.
C2_Witness ==
    /\ pc = "returned"
    /\ mode = "process"
    /\ index.present
    /\ index.keys = <<"b", "a">>
    /\ output.v["a"] # output.v["b"]

\* C3: a call one of whose tasks raises never returns a result; and the
\* exception of a task that the call raises is the exception of that task.
C3_FailureAborts ==
    /\ pc = "returned" => \A i \in 1..Len(inputs) : ~IsExc(TaskOutcome(i))
    /\ (pc = "raised" /\ error.at > 0) =>
          /\ IsExc(TaskOutcome(error.at))
          /\ error.kind = TaskOutcome(error.at).v

\* Witness of C3: a pool call of three tasks raised the failure of its one
\* failing task after the two others had succeeded.
C3_Witness ==
    /\ pc = "raised"
    /\ mode = "process"
    /\ error.kind = "TaskError"
    /\ Len(inputs) = 3
    /\ Cardinality({i \in 1..3 : fut[i] = "done"}) = 2

\* C4: a call with none, two or three of arg_list, arg_lists and kwarg_dicts
\* raises a validation error and the target is never invoked.
C4_AmbiguousShapeFailsFast ==
    (pc # "idle" /\ Cardinality(GivenArgs) # 1) =>
        /\ pc = "raised"
        /\ error.kind \in ValidationKinds
        /\ fut = <<>>
        /\ NoTaskRan

\* Witness of C4: a call of an implemented strategy with both arg_list and
\* arg_lists, each holding payloads, raised the shape error.
C4_Witness ==
    /\ pc = "raised"
    /\ error.kind = "shape"
    /\ mode \in Implemented
    /\ GivenArgs = {"arg_list", "arg_lists"}
    /\ Len(call.arg_list[1].items) > 0

\* C5 as claimed: every call with the nested strategy raises a
\* not-implemented error and executes no task.
C5_NestedNotImplemented ==
    (pc # "idle" /\ mode = "nested") =>
        /\ pc = "raised"
        /\ error.kind \in NotImplementedKinds
        /\ NoTaskRan

\* C5 as amended: every call with the nested strategy raises and executes no
\* task; the error is a not-implemented error when exactly one task-shape
\* argument is given and the shape validation error otherwise.
C5_NestedRejected ==
    (pc # "idle" /\ mode = "nested") =>
        /\ pc = "raised"
        /\ fut = <<>>
        /\ NoTaskRan
        /\ pool = "none"
        /\ IF Cardinality(GivenArgs) = 1
           THEN error.kind \in NotImplementedKinds
           ELSE error.kind = "shape"

\* Witness of C5: a nested call with payloads raised the nested branch's
\* not-implemented error.
C5_Witness ==
    /\ pc = "raised"
    /\ mode = "nested"
    /\ error.kind = "nested"
    /\ Len(inputs) > 0

\* C6 as claimed: a call with an unrecognized strategy token fails with the
\* unsupported-mode error and executes no task.
C6_UnknownModeError ==
    (pc # "idle" /\ mode \notin Implemented \cup {"nested"}) =>
        /\ pc = "raised"
        /\ error.kind = "unknown_mode"
        /\ NoTaskRan

\* C6 as amended: a call with an unrecognized strategy token raises, creates
\* no pool and executes no task; the error is that of the first failing check
\* in the code's order: a worker-subcount given, not exactly one task-shape
\* argument, deep transpose with an indexed input, and only then the
\* unsupported mode.
C6_UnknownModeRejected ==
    (pc # "idle" /\ mode \notin Implemented \cup {"nested"}) =>
        /\ pc = "raised"
        /\ fut = <<>>
        /\ NoTaskRan
        /\ pool = "none"
        /\ error.kind =
              IF call.n_subworkers_per_worker # <<>> THEN "n_subworkers"
              ELSE IF Cardinality(GivenArgs) # 1 THEN "shape"
              ELSE IF call.to_dict_of_lists /\ Passed.kind = "dict" THEN "indexed_collapse"
              ELSE "unknown_mode"

\* Witness of C6: a call with an unrecognized token and payloads raised the
\* unsupported-mode error.
C6_Witness ==
    /\ pc = "raised"
    /\ error.kind = "unknown_mode"
    /\ Len(inputs) > 0

\* C7 as claimed: when the call has handed control back to its caller, by
\* return or by exception, no task of the batch is running.
C7_JoinAll == Over => Running = {}

\* C8 as claimed: the pool of a call is torn down when its batch is over, so
\* that no pool created by an earlier call is alive once the caller goes on.
C8_PoolScopedToCall == ~leaked

\* ---------------------------------------------------------------- properties of the transpose

OnlyDicts(vals) == \A i \in 1..Len(vals) : vals[i].k = "dict"

RECURSIVE DeepUniform(_)
DeepUniform(recs) ==
    /\ Uniform(recs)
    /\ \A key \in DOMAIN recs[1].v :
          OnlyDicts(ColOf(recs, key)) => DeepUniform(ColOf(recs, key))

RECURSIVE IsTransposeOf(_, _)
IsTransposeOf(out, recs) ==
    /\ out.k = "dict"
    /\ DOMAIN out.v = DOMAIN recs[1].v
    /\ \A key \in DOMAIN recs[1].v :
          IF OnlyDicts(ColOf(recs, key))
          THEN IsTransposeOf(out.v[key], ColOf(recs, key))
          ELSE out.v[key] = L(ColOf(recs, key))

Transposing == Over /\ call.to_dict_of_lists /\ ~index.present /\ Len(inputs) >= 1

\* C9 as claimed: with the flag set, N >= 1 result records that are dicts
\* with one key set are converted into a dict with that key set in which each
\* key holds the list of the records' values in record order (or, the values
\* being all dicts, a dict made of them).
C9_UniformTransposed ==
    (Transposing /\ Uniform(Results)) =>
        /\ pc = "returned"
        /\ output.k = "dict"
        /\ DOMAIN output.v = DOMAIN Results[1].v
        /\ \A key \in DOMAIN Results[1].v :
              \/ output.v[key] = L(ColOf(Results, key))
              \/ OnlyDicts(ColOf(Results, key)) /\ output.v[key].k = "dict"

\* C9 as amended: such records are converted into a dict with the shared key
\* set in which a key whose values are not all dicts holds the list of the
\* records' values in record order and a key whose values are all dicts
\* holds the transpose of those values; the call raises the different-keys
\* error instead when at some depth such all-dict values do not share one key
\* set.
C9_DeepUniformTransposed ==
    (Transposing /\ Uniform(Results)) =>
        IF DeepUniform(Results)
        THEN pc = "returned" /\ IsTransposeOf(output, Results)
        ELSE pc = "raised" /\ error.kind = "different_keys"

\* Witness of C9: two records {a: 1, b: {a: 1}} were transposed into a dict
\* whose b is a dict again.
C9_Witness ==
    /\ pc = "returned"
    /\ call.to_dict_of_lists
    /\ Len(inputs) = 2
    /\ inputs[1] = D([a |-> I(1), b |-> D([a |-> I(1)])])
    /\ output.v["a"].k = "list"
    /\ output.v["b"].k = "dict"

\* C17: in the transpose of N records with one key set, a key is transposed
\* again exactly when all N values the records hold under it are dicts, and
\* then by the same rule at every depth; a key with a value that is no dict
\* keeps the plain list of its N values; and a key whose values are all dicts
\* with different key sets makes the call raise the different-keys error.
C17_RecursionRule ==
    (Transposing /\ Uniform(Results)) =>
        \A key \in DOMAIN Results[1].v :
            LET col == ColOf(Results, key)
            IN /\ (pc = "returned" /\ ~OnlyDicts(col)) =>
                     output.v[key] = L(col) /\ Len(col) = Len(inputs)
               /\ (pc = "returned" /\ OnlyDicts(col)) =>
                     output.v[key].k = "dict" /\ IsTransposeOf(output.v[key], col)
               /\ (OnlyDicts(col) /\ ~Uniform(col)) =>
                     pc = "raised" /\ error.kind = "different_keys"

\* Witness of C17: of the records {a: {a: 1}, b: {a: 1}} and
\* {a: {a: 1}, b: 1}, key a was transposed again and key b, with a dict and a
\* scalar, kept its list.
C17_Witness ==
    /\ pc = "returned"
    /\ call.to_dict_of_lists
    /\ inputs = <<D([a |-> D([a |-> I(1)]), b |-> D([a |-> I(1)])]),
                  D([a |-> D([a |-> I(1)]), b |-> I(1)])>>
    /\ output.v["a"] = D([a |-> L(<<I(1), I(1)>>)])
    /\ output.v["b"] = L(<<D([a |-> I(1)]), I(1)>>)

\* C10: with the flag set and N >= 1 result records, the call raises when a
\* record is no dict or the records' key sets differ; a call that returns
\* returns a dict whose key set is the key set of every record.
C10_HeterogeneousRejected ==
    /\ (Transposing /\ ~Uniform(Results)) =>
          pc = "raised" /\ error.kind \in {"not_dict", "different_keys"}
    /\ (Transposing /\ pc = "returned") =>
          /\ output.k = "dict"
          /\ \A i \in 1..Len(inputs) :
                Results[i].k = "dict" /\ DOMAIN Results[i].v = DOMAIN output.v

\* Witness of C10: the records {a: 1, b: 1} and {a: 1} were refused for
\* their different keys.
C10_Witness ==
    /\ pc = "raised"
    /\ call.to_dict_of_lists
    /\ error.kind = "different_keys"
    /\ inputs = <<D([a |-> I(1), b |-> I(1)]), D([a |-> I(1)])>>

\* ---------------------------------------------------------------- properties of the entry checks

IndexedInput == GivenArgs # {} /\ \A a \in GivenArgs : call[a][1].kind = "dict"
SubcountOutsideNested == call.n_subworkers_per_worker # <<>> /\ mode # "nested"

\* C11 as claimed: a call with the deep-transpose flag and a mapping as its
\* input raises a not-implemented error and executes no task.
C11_IndexedCollapseNotImplemented ==
    (pc # "idle" /\ call.to_dict_of_lists /\ IndexedInput) =>
        /\ pc = "raised"
        /\ error.kind \in NotImplementedKinds
        /\ NoTaskRan

\* C11 as amended: such a call raises, creates no pool and executes no task;
\* the error is the not-implemented error of line 66 unless one of the two
\* earlier checks fails: a worker-subcount outside the nested strategy, or
\* not exactly one task-shape argument (both validation errors).
C11_IndexedCollapseRejected ==
    (pc # "idle" /\ call.to_dict_of_lists /\ IndexedInput) =>
        /\ pc = "raised"
        /\ fut = <<>>
        /\ NoTaskRan
        /\ pool = "none"
        /\ error.kind =
              IF SubcountOutsideNested THEN "n_subworkers"
              ELSE IF Cardinality(GivenArgs) # 1 THEN "shape"
              ELSE "indexed_collapse"

\* Witness of C11: a thread call with the flag and a two-key mapping raised
\* the not-implemented error of line 66.
C11_Witness ==
    /\ pc = "raised"
    /\ mode = "thread"
    /\ error.kind = "indexed_collapse"
    /\ call.to_dict_of_lists
    /\ GivenArgs = {"kwarg_dicts"}
    /\ Len(call.kwarg_dicts[1].keys) = 2

\* C12: a call that gives n_subworkers_per_worker under a strategy other
\* than nested raises the validation error of line 54; no task list is
\* built, no pool is created and the target is never invoked.
C12_SubcountRejected ==
    (pc # "idle" /\ SubcountOutsideNested) =>
        /\ pc = "raised"
        /\ error.kind = "n_subworkers"
        /\ error.kind \in ValidationKinds
        /\ fut = <<>>
        /\ NoTaskRan
        /\ pool = "none"

\* Witness of C12: a call of an implemented strategy, valid but for its
\* worker-subcount and holding payloads, raised that validation error.
C12_Witness ==
    /\ pc = "raised"
    /\ error.kind = "n_subworkers"
    /\ mode \in Implemented
    /\ GivenArgs = {"arg_list"}
    /\ ~call.to_dict_of_lists
    /\ Len(call.arg_list[1].items) = 2

\* ---------------------------------------------------------------- properties of the call shapes

\* What the caller asked for, read off the call's arguments: the positional
\* and keyword arguments payload i stands for, and the common keywords.
CommonKw == IF call.common = <<>> THEN <<>> ELSE call.common[1]
PayloadPos(i) ==
    IF GivenArgs = {"arg_list"} /\ call.arg_name = None THEN <<Passed.items[i]>>
    ELSE IF GivenArgs = {"arg_lists"} THEN Passed.items[i]
    ELSE <<>>
PayloadKw(i) ==
    IF GivenArgs = {"arg_list"} /\ call.arg_name # None
        THEN (call.arg_name :> Passed.items[i])
    ELSE IF GivenArgs = {"kwarg_dicts"} THEN Passed.items[i]
    ELSE <<>>
Collides(i) == DOMAIN PayloadKw(i) \cap DOMAIN CommonKw # {}
WellBound(i) ==
    ~Collides(i) /\ Bindable(f.params, PayloadPos(i), PayloadKw(i) @@ CommonKw)
Expected(i) == Body(f, Bound(f.params, PayloadPos(i), PayloadKw(i) @@ CommonKw))
FXY == [params |-> <<"x", "y">>, body |-> "args", raises |-> {}]
FScale == [params |-> <<"x", "scale">>, body |-> "mul", raises |-> {}]

\* C13: a call returns exactly when every payload, bound as its call shape
\* says (a value positionally, a value under arg_name, a tuple unpacked, a
\* dict unpacked) together with the common keywords, is a well-formed call of
\* the target, and its i-th result is then the target's value on that
\* binding; f(x, y) over [(1,2),(3,4)] and over [{x:1,y:2},{x:3,y:4}] gives
\* [f(1,2), f(3,4)], and f(x, scale) over [1,2,3] with common {scale: 10}
\* gives [10,20,30].
C13_ShapeBinding ==
    /\ Over => ((pc = "returned") = (\A i \in 1..Len(Passed.items) : WellBound(i)))
    /\ pc = "returned" =>
          output = L([i \in 1..Len(Passed.items) |-> Expected(i)])
    /\ (Over /\ f = FXY /\ CommonKw = <<>>
           /\ \/ call.arg_lists = <<AsList(<< <<I(1), I(2)>>, <<I(3), I(4)>> >>)>>
              \/ call.kwarg_dicts = <<AsList(<<[x |-> I(1), y |-> I(2)],
                                               [x |-> I(3), y |-> I(4)]>>)>>) =>
          /\ pc = "returned"
          /\ output = L(<<L(<<I(1), I(2)>>), L(<<I(3), I(4)>>)>>)
    /\ (Over /\ f = FScale /\ call.common = <<[scale |-> I(10)]>>
           /\ call.arg_name = None
           /\ call.arg_list = <<AsList(<<I(1), I(2), I(3)>>)>>) =>
          /\ pc = "returned"
          /\ output = L(<<I(10), I(20), I(30)>>)

\* Witness of C13: f(x, scale) over the values [1,2,3] under the name scale
\* with common {x: 3} returned [3,6,9].
C13_Witness ==
    /\ pc = "returned"
    /\ f = FScale
    /\ call.arg_name = "scale"
    /\ call.common = <<[x |-> I(3)]>>
    /\ call.arg_list = <<AsList(<<I(1), I(2), I(3)>>)>>
    /\ output = L(<<I(3), I(6), I(9)>>)

\* C14 as claimed: when a common keyword has the name of a per-task keyword
\* (arg_name, or a key of a kwargs payload) and the merged keywords with the
\* common value for that name are a well-formed call of the target, the call
\* returns and each result is the target's value on the merged keywords,
\* common winning.
C14_CommonWins ==
    (/\ Over
     /\ \E i \in 1..Len(Passed.items) : Collides(i)
     /\ \A i \in 1..Len(Passed.items) :
            Bindable(f.params, PayloadPos(i), CommonKw @@ PayloadKw(i))) =>
        /\ pc = "returned"
        /\ output = L([i \in 1..Len(Passed.items) |->
                         Body(f, Bound(f.params, PayloadPos(i), CommonKw @@ PayloadKw(i)))])

\* ---------------------------------------------------------------- properties of the dispatch

FailingTasks == {i \in 1..Len(inputs) : IsExc(TaskOutcome(i))}
FailedInOrder == LET Failing(i) == IsExc(res[i]) IN SelectSeq(finished, Failing)

\* C15: when a call of the process, thread or serial strategy has returned,
\* there is one task per payload of the input and the target has been
\* invoked exactly once for each of them.
C15_ExactlyOnce ==
    (pc = "returned" /\ mode \in Implemented) =>
        /\ DOMAIN ncalls = 1..Len(Passed.items)
        /\ \A i \in DOMAIN ncalls : ncalls[i] = 1 /\ fut[i] = "done"

\* Witness of C15: a thread call of three payloads on two workers returned.
C15_Witness ==
    /\ pc = "returned"
    /\ mode = "thread"
    /\ n_workers = 2
    /\ Len(Passed.items) = 3
    /\ finished = <<2, 1, 3>>

\* C16: the exception of a task that a call raises is, under serial and
\* thread, the failure of the failing payload of lowest position, whatever
\* the order in which the tasks failed, and under process the failure that
\* was reported first; under serial no task behind a failing one is ever
\* started.
C16_FirstFailureRaised ==
    /\ (pc = "raised" /\ error.at > 0 /\ mode \in {"serial", "thread"}) =>
          error.at = Min(FailingTasks)
    /\ (pc = "raised" /\ error.at > 0 /\ mode = "process") =>
          error.at = FailedInOrder[1]
    /\ (pc # "idle" /\ mode = "serial") =>
          \A j \in DOMAIN ncalls :
              ncalls[j] > 0 => \A i \in 1..(j - 1) : i \notin FailingTasks

\* Witness of C16: a thread call raised the failure of its first payload
\* although its second payload had failed before.
C16_Witness ==
    /\ pc = "raised"
    /\ mode = "thread"
    /\ error.at = 1
    /\ Len(finished) >= 2
    /\ finished[1] = 2
    /\ IsExc(res[2])

\* C18: a call of an implemented strategy with the deep-transpose flag and
\* an empty sequence as its input never raises, and what it returns is the
\* empty list, not a dict.
EmptyCollapse ==
    /\ pc # "idle"
    /\ mode \in Implemented
    /\ call.to_dict_of_lists
    /\ call.n_subworkers_per_worker = <<>>
    /\ Cardinality(GivenArgs) = 1
    /\ Passed.kind = "list"
    /\ Len(Passed.items) = 0

C18_EmptyShortCircuit ==
    EmptyCollapse =>
        /\ pc # "raised"
        /\ fut = <<>>
        /\ pc = "returned" => output = L(<<>>)

\* Witness of C18: a process call with the flag and an empty arg_lists
\* returned the empty list.
C18_Witness ==
    /\ EmptyCollapse
    /\ pc = "returned"
    /\ mode = "process"
    /\ GivenArgs = {"arg_lists"}
    /\ output = L(<<>>)

\* C19: under process and thread the tasks of the batch inside the target at
\* one time are at most n_workers; under serial at most one is, a task is
\* started only when every payload before it is done, and so the tasks
\* finish in input order.
C19_BoundedConcurrency ==
    /\ (pc # "idle" /\ mode \in {"process", "thread"}) =>
          Cardinality(Running) <= n_workers
    /\ (pc # "idle" /\ mode = "serial") =>
          /\ Cardinality(Running) <= 1
          /\ \A j \in DOMAIN fut :
                fut[j] # "pending" => \A i \in 1..(j - 1) : fut[i] = "done"
          /\ finished = [j \in 1..Len(finished) |-> j]

\* Witness of C19: a process call of three payloads has its two workers
\* inside the target and its third payload waiting.
C19_Witness ==
    /\ pc = "process"
    /\ n_workers = 2
    /\ Len(inputs) = 3
    /\ Cardinality(Running) = 2
    /\ Cardinality(Pending) = 1

\* ---------------------------------------------------------------- properties of the decorator

\* The keywords the claim has task i called with: the plural value i under
\* the singular name, and every other supplied argument, the positional ones
\* under the names of their positions.
Supplied(fn, args) == [k \in {fn.params[i] : i \in 1..Len(args)} |->
                         args[CHOOSE i \in 1..Len(args) : fn.params[i] = k]]
ClaimedKw(i) ==
    (DSingular :> wcall.kwargs[DPlural][1].items[i])
        @@ Supplied(wcall.fn, wcall.args)
        @@ [k \in DOMAIN wcall.kwargs \ {DPlural} |-> wcall.kwargs[k]]

\* C20 as claimed: a call of the decorated function is in parallel mode
\* exactly when the plural argument is a keyword of the call and not None; it
\* then has one task per plural value, each calling the function with that
\* value as its singular argument and the other supplied arguments, and the
\* function is not called directly; otherwise the function is called once,
\* directly, without the plural argument, and there is no batch.
C20_ParallelizeInput ==
    (wcall.active /\ Over) =>
        LET par == DPlural \in DOMAIN wcall.kwargs /\ wcall.kwargs[DPlural] # <<>>
            direct == [k \in DOMAIN wcall.kwargs \ {DPlural} |-> wcall.kwargs[k]]
        IN /\ wcall.parallel = par
           /\ par =>
                 /\ wcall.direct = 0
                 /\ Len(inputs) = Len(wcall.kwargs[DPlural][1].items)
                 /\ \A i \in 1..Len(inputs) :
                       Bindable(wcall.fn.params, <<>>, ClaimedKw(i)) =>
                           TaskOutcome(i) =
                               Body(wcall.fn, Bound(wcall.fn.params, <<>>, ClaimedKw(i)))
           /\ ~par =>
                 /\ wcall.direct = 1
                 /\ fut = <<>> /\ inputs = <<>> /\ pool = "none"
                 /\ IF Bindable(wcall.fn.params, wcall.args, direct)
                    THEN /\ pc = "returned"
                         /\ output = Body(wcall.fn, Bound(wcall.fn.params, wcall.args, direct))
                    ELSE pc = "raised"

====
